---- MODULE Spec2Model ----
(***************************************************************************)
(* Weighted graph, Dijkstra's algorithm over a binary heap with lazy       *)
(* deletion, and route reconstruction from the predecessor map, as         *)
(* implemented in src/task_3.py.                                            *)
(*                                                                         *)
(* Weights and distances are integers (sums are exact); float("inf") is    *)
(* the number Inf, larger than every finite distance the bounds allow.     *)
(* Vertex labels are strings; Python's string order on them is LabelLess.  *)
(***************************************************************************)
EXTENDS Integers, Sequences, FiniteSets, TLC

VARIABLES adj, nedges, pc, start, dist, prev, heap, pops, pushes, poplog,
          target, result

vars ==
    <<adj, nedges, pc, start, dist, prev, heap, pops, pushes, poplog, target,
      result>>

\* ------------------------------------------------------------------ bounds

\* Number of add_edge calls made on one graph.
MaxEdges == 3

\* The vertex labels, in Python's string order.
VertexOrder == <<"A", "B", "C">>

Vertices == {VertexOrder[i] : i \in 1..Len(VertexOrder)}

\* Non-negative edge weights offered to add_edge.
Weights == {0, 1, 2, 4}

\* Edge weights offered to add_edge when negative weights are allowed.
NegWeights == {-1, 0, 1}

\* ------------------------------------------------------------- values

\* float("inf")
Inf == 1000000

\* Python's None (no vertex label is "None").
None == "None"

EmptyMap == [v \in {} |-> 0]

Rank(v) == CHOOSE i \in 1..Len(VertexOrder) : VertexOrder[i] = v

\* str.__lt__ on vertex labels
LabelLess(a, b) == Rank(a) < Rank(b)

\* mutant: the larger distance comes first
TupleLessReversed(a, b) == a[1] > b[1] \/ (a[1] = b[1] /\ LabelLess(a[2], b[2]))

\* mutant: entries compared by distance alone
TupleLessNoTie(a, b) == a[1] < b[1]

\* tuple.__lt__ on (distance, vertex) heap entries: lexicographic
TupleLess(a, b) == a[1] < b[1] \/ (a[1] = b[1] /\ LabelLess(a[2], b[2]))

\* ------------------------------------------------------------- Graph

\* mutant: the list of v is set to empty whether v is present or not
add_vertex_reset(g, v) ==
    [x \in DOMAIN g \cup {v} |-> IF x = v THEN <<>> ELSE g[x]]

add_vertex(g, v) ==
    IF v \in DOMAIN g
    THEN g
    ELSE [x \in DOMAIN g \cup {v} |-> IF x = v THEN <<>> ELSE g[x]]

\* mutant: an entry already in the list is not appended again
AppendNew(list, e) ==
    IF \E i \in 1..Len(list) : list[i] = e THEN list ELSE Append(list, e)

add_edge_dedup(g, u, v, weight, undirected) ==
    LET g1 == add_vertex(add_vertex(g, u), v)
        g2 == [g1 EXCEPT ![u] = AppendNew(@, <<v, weight>>)]
    IN IF undirected
       THEN [g2 EXCEPT ![v] = AppendNew(@, <<u, weight>>)]
       ELSE g2

add_edge(g, u, v, weight, undirected) ==
    LET g1 == add_vertex(add_vertex(g, u), v)
        g2 == [g1 EXCEPT ![u] = Append(@, <<v, weight>>)]
    IN IF undirected
       THEN [g2 EXCEPT ![v] = Append(@, <<u, weight>>)]
       ELSE g2

\* ------------------------------------------------------------- heapq

\* list[i] = x for the 0-based index i
SetAt(h, i, x) == [h EXCEPT ![i + 1] = x]

RECURSIVE SiftDownLoop(_, _, _, _)
\* heapq._siftdown: move newitem up from pos while it is less than its parent
SiftDownLoop(h, startpos, pos, newitem) ==
    IF pos > startpos
    THEN LET parentpos == (pos - 1) \div 2
             parent == h[parentpos + 1]
         IN IF TupleLess(newitem, parent)
            THEN SiftDownLoop(SetAt(h, pos, parent), startpos, parentpos, newitem)
            ELSE SetAt(h, pos, newitem)
    ELSE SetAt(h, pos, newitem)

siftdown(h, startpos, pos) == SiftDownLoop(h, startpos, pos, h[pos + 1])

RECURSIVE SiftUpLoop(_, _, _, _)
\* heapq._siftup: bubble the smaller child up until a leaf, then sift newitem down
SiftUpLoop(h, startpos, pos, newitem) ==
    LET endpos == Len(h)
        childpos == 2 * pos + 1
        rightpos == childpos + 1
    IN IF childpos < endpos
       THEN LET c == IF rightpos < endpos
                        /\ ~TupleLess(h[childpos + 1], h[rightpos + 1])
                     THEN rightpos
                     ELSE childpos
            IN SiftUpLoop(SetAt(h, pos, h[c + 1]), startpos, c, newitem)
       ELSE siftdown(SetAt(h, pos, newitem), startpos, pos)

siftup(h, pos) == SiftUpLoop(h, pos, pos, h[pos + 1])

\* heapq.heappush(heap, item)
heappush(h, item) == siftdown(Append(h, item), 0, Len(h))

\* heapq.heappop(heap) on a non-empty heap: the item returned and the heap left
heappop(h) ==
    LET lastelt == h[Len(h)]
        rest == SubSeq(h, 1, Len(h) - 1)
    IN IF rest /= <<>>
       THEN [item |-> rest[1], heap |-> siftup(SetAt(rest, 0, lastelt), 0)]
       ELSE [item |-> lastelt, heap |-> rest]

\* ------------------------------------------------- dijkstra_with_paths

\* d[k] = x on a dict: the key is created when absent
DictSet(d, k, x) == [y \in DOMAIN d \cup {k} |-> IF y = k THEN x ELSE d[y]]

\* mutant: every distance starts at 0.0 instead of infinity
InitDistZero(g, s) == DictSet([v \in DOMAIN g |-> 0], s, 0)

\* lines 59 and 65: every graph vertex at infinity, then dist[start] = 0.0
InitDist(g, s) == DictSet([v \in DOMAIN g |-> Inf], s, 0)

\* mutant: prev = {} (no entry until a vertex is relaxed)
InitPrevEmpty(g) == EmptyMap

\* line 62: every graph vertex without predecessor
InitPrev(g) == [v \in DOMAIN g |-> None]

\* mutant: current_dist >= dist[u]
IsStaleOrEqual(current_dist, best) == current_dist >= best

\* the test of line 75: the popped entry is stale
IsStale(current_dist, best) == current_dist > best

\* mutant: new_dist <= dist[v]
ImprovesOrEqual(new_dist, old_dist) == new_dist <= old_dist

\* mutant: the test of line 84 turned round
ImprovesWorse(new_dist, old_dist) == new_dist > old_dist

\* the test of line 84: the candidate improves the recorded distance
Improves(new_dist, old_dist) == new_dist < old_dist

\* mutant: line 86 (prev[v] = u) left out
RelaxEdgeNoPrev(st, u, current_dist, edge) ==
    LET v == edge[1]
        new_dist == current_dist + edge[2]
    IN IF v \notin DOMAIN st.dist
       THEN [st EXCEPT !.err = TRUE]
       ELSE IF Improves(new_dist, st.dist[v])
            THEN [st EXCEPT !.dist = [st.dist EXCEPT ![v] = new_dist],
                            !.heap = heappush(st.heap, <<new_dist, v>>),
                            !.pushes = st.pushes + 1]
            ELSE st

\* the body of the for loop of lines 79-88 for one adjacency entry
RelaxEdge(st, u, current_dist, edge) ==
    LET v == edge[1]
        weight == edge[2]
        new_dist == current_dist + weight
    IN IF v \notin DOMAIN st.dist
       THEN [st EXCEPT !.err = TRUE]
       ELSE IF Improves(new_dist, st.dist[v])
            THEN [dist |-> [st.dist EXCEPT ![v] = new_dist],
                  prev |-> DictSet(st.prev, v, u),
                  heap |-> heappush(st.heap, <<new_dist, v>>),
                  pushes |-> st.pushes + 1,
                  err |-> FALSE]
            ELSE st

\* mutant: the for loop stops after its first entry
RelaxLoopFirst(st, edges, u, current_dist, i) ==
    IF i > Len(edges) \/ st.err
    THEN st
    ELSE RelaxEdge(st, u, current_dist, edges[i])

RECURSIVE RelaxLoop(_, _, _, _, _)
\* for v, weight in graph.adj[u]: entries i..len of the list, in order
RelaxLoop(st, edges, u, current_dist, i) ==
    IF i > Len(edges) \/ st.err
    THEN st
    ELSE RelaxLoop(RelaxEdge(st, u, current_dist, edges[i]), edges, u,
                   current_dist, i + 1)

\* mutant: graph.adj.get(u, []) in place of graph.adj[u]
LoopBodyGet(g, d, p, h) ==
    LET popped == heappop(h)
        current_dist == popped.item[1]
        u == popped.item[2]
        st0 == [dist |-> d, prev |-> p, heap |-> popped.heap, pushes |-> 0,
                err |-> FALSE]
    IN IF IsStale(current_dist, d[u])
       THEN st0
       ELSE RelaxLoop(st0, IF u \in DOMAIN g THEN g[u] ELSE <<>>, u,
                      current_dist, 1)

\* One pass of the while loop of lines 70-88 from the maps and heap given:
\* the pop, the staleness test, and the relaxation of every neighbour.
\* err: a dict lookup failed (KeyError); pushes: the heappush calls made.
LoopBody(g, d, p, h) ==
    LET popped == heappop(h)
        current_dist == popped.item[1]
        u == popped.item[2]
        st0 == [dist |-> d, prev |-> p, heap |-> popped.heap, pushes |-> 0,
                err |-> FALSE]
    IN IF IsStale(current_dist, d[u])
       THEN st0
       ELSE IF u \notin DOMAIN g
            THEN [st0 EXCEPT !.err = TRUE]
            ELSE RelaxLoop(st0, g[u], u, current_dist, 1)

\* What line 72 pops from heap h and what line 75 finds of it against the
\* distances d: the record kept in poplog, the history of the pops of a run.
Popped(d, h) ==
    LET item == heappop(h).item
    IN [item |-> item, stale |-> IsStale(item[1], d[item[2]])]

RECURSIVE SumNegative(_, _)
SumNegative(edges, i) ==
    IF i > Len(edges)
    THEN 0
    ELSE (IF edges[i][2] < 0 THEN edges[i][2] ELSE 0) + SumNegative(edges, i + 1)

RECURSIVE SumOver(_, _)
SumOver(g, S) ==
    IF S = {}
    THEN 0
    ELSE LET v == CHOOSE x \in S : TRUE
         IN SumNegative(g[v], 1) + SumOver(g, S \ {v})

\* The least weight any simple path of g can have: the sum of its negative
\* weights. A recorded distance is the weight of some walk from start; one
\* below DistFloor is the weight of a walk through a negative cycle, and
\* with such a cycle reachable the heap never empties (at an empty heap every
\* adjacency entry (u, v, w) with dist[u] finite has dist[v] <= dist[u] + w,
\* which no negative cycle satisfies). The model stops such a run in the
\* state "diverging" instead of following it through ever lower distances.
DistFloor(g) == SumOver(g, DOMAIN g)

Diverges(g, d) == \E v \in DOMAIN d : d[v] < DistFloor(g)

\* the adjacency entries of g, over all its lists: (vertex, position)
Entries(g) == UNION {{<<u, i>> : i \in 1..Len(g[u])} : u \in DOMAIN g}

NumEntries(g) == Cardinality(Entries(g))

\* ------------------------------------------------------ reconstruct_path

Returned(path) == [kind |-> "returned", path |-> path]

Raised == [kind |-> "KeyError", path |-> <<>>]

\* the while loop of lines 115-119 never exits
Loops == [kind |-> "loops", path |-> <<>>]

NoResult == [kind |-> "none", path |-> <<>>]

Last(s) == s[Len(s)]

\* mutant: path.reverse() left out
NotReversed(s) == s

RECURSIVE Reverse(_)
Reverse(s) == IF s = <<>> THEN <<>> ELSE Append(Reverse(Tail(s)), Head(s))

InPath(path, v) == \E i \in 1..Len(path) : path[i] = v

RECURSIVE Walk(_, _, _, _)
\* while cur is not None: path.append(cur); if cur == start: break;
\* cur = prev[cur]. The walk's next vertex depends on cur alone, so a walk
\* that comes to a vertex already in path repeats from there for ever.
Walk(p, s, cur, path) ==
    IF cur = None
    THEN Returned(path)
    ELSE IF InPath(path, cur)
         THEN Loops
         ELSE IF cur = s
              THEN Returned(Append(path, cur))
              ELSE IF cur \notin DOMAIN p
                   THEN Raised
                   ELSE Walk(p, s, p[cur], Append(path, cur))

\* mutant: prev.get(target) in place of prev[target]
reconstruct_path_get(p, s, t) ==
    IF s = t
    THEN Returned(<<s>>)
    ELSE IF t \notin DOMAIN p \/ p[t] = None
         THEN Returned(<<>>)
         ELSE LET w == Walk(p, s, t, <<>>)
              IN IF w.kind /= "returned"
                 THEN w
                 ELSE IF Last(w.path) /= s
                      THEN Returned(<<>>)
                      ELSE Returned(Reverse(w.path))

\* mutant: the test of line 108 made before the test of line 104
reconstruct_path_swapped(p, s, t) ==
    IF t \notin DOMAIN p
    THEN Raised
    ELSE IF p[t] = None
         THEN Returned(<<>>)
         ELSE IF s = t
              THEN Returned(<<s>>)
              ELSE LET w == Walk(p, s, t, <<>>)
                   IN IF w.kind /= "returned"
                      THEN w
                      ELSE IF Last(w.path) /= s
                           THEN Returned(<<>>)
                           ELSE Returned(Reverse(w.path))

reconstruct_path(p, s, t) ==
    IF s = t
    THEN Returned(<<s>>)
    ELSE IF t \notin DOMAIN p
         THEN Raised
         ELSE IF p[t] = None
              THEN Returned(<<>>)
              ELSE LET w == Walk(p, s, t, <<>>)
                   IN IF w.kind /= "returned"
                      THEN w
                      ELSE IF Last(w.path) /= s
                           THEN Returned(<<>>)
                           ELSE Returned(Reverse(w.path))

\* ------------------------------------------------------------- actions

TypeOK ==
    /\ DOMAIN adj \subseteq Vertices
    /\ nedges \in 0..MaxEdges
    /\ pc \in {"build", "run", "done", "KeyError", "diverging", "reconstructed"}

Init ==
    /\ adj = EmptyMap
    /\ nedges = 0
    /\ pc = "build"
    /\ start = None
    /\ dist = EmptyMap
    /\ prev = EmptyMap
    /\ heap = <<>>
    /\ pops = 0
    /\ pushes = 0
    /\ poplog = <<>>
    /\ target = None
    /\ result = NoResult

AddVertex ==
    /\ pc = "build"
    /\ \E v \in Vertices : adj' = add_vertex(adj, v)
    /\ UNCHANGED <<nedges, pc, start, dist, prev, heap, pops, pushes, poplog, target,
                   result>>

AddEdgeFrom(W) ==
    /\ pc = "build"
    /\ nedges < MaxEdges
    /\ \E u \in Vertices, v \in Vertices, weight \in W, undirected \in BOOLEAN :
           adj' = add_edge(adj, u, v, weight, undirected)
    /\ nedges' = nedges + 1
    /\ UNCHANGED <<pc, start, dist, prev, heap, pops, pushes, poplog, target, result>>

AddEdge == AddEdgeFrom(Weights)

AddNegEdge == AddEdgeFrom(NegWeights)

\* lines 59-68: the maps and the heap before the loop
Compute ==
    /\ pc = "build"
    /\ \E s \in Vertices :
           /\ start' = s
           /\ dist' = InitDist(adj, s)
           /\ prev' = InitPrev(adj)
           /\ heap' = <<<<0, s>>>>
    /\ pops' = 0
    /\ pushes' = 0
    /\ poplog' = <<>>
    /\ pc' = "run"
    /\ UNCHANGED <<adj, nedges, target, result>>

\* lines 70-88: one pass of the while loop
Iterate ==
    /\ pc = "run"
    /\ heap /= <<>>
    /\ LET st == LoopBody(adj, dist, prev, heap)
       IN /\ dist' = st.dist
          /\ prev' = st.prev
          /\ heap' = st.heap
          /\ pops' = pops + 1
          /\ pushes' = pushes + st.pushes
          /\ poplog' = Append(poplog, Popped(dist, heap))
          /\ pc' = IF st.err THEN "KeyError"
                   ELSE IF Diverges(adj, st.dist) THEN "diverging"
                   ELSE "run"
    /\ UNCHANGED <<adj, nedges, start, target, result>>

\* line 90: the heap is empty
Return ==
    /\ pc = "run"
    /\ heap = <<>>
    /\ pc' = "done"
    /\ UNCHANGED <<adj, nedges, start, dist, prev, heap, pops, pushes, poplog, target,
                   result>>

\* reconstruct_path(prev, start, target) on the maps compute returned
Reconstruct ==
    /\ pc = "done"
    /\ \E t \in Vertices :
           /\ target' = t
           /\ result' = reconstruct_path(prev, start, t)
    /\ pc' = "reconstructed"
    /\ UNCHANGED <<adj, nedges, start, dist, prev, heap, pops, pushes, poplog>>

Next == AddVertex \/ AddEdge \/ Compute \/ Iterate \/ Return \/ Reconstruct

Spec == Init /\ [][Next]_vars

\* The same program with negative weights offered to add_edge.
NextNeg == AddVertex \/ AddNegEdge \/ Compute \/ Iterate \/ Return \/ Reconstruct

SpecNeg == Init /\ [][NextNeg]_vars

\* reconstruct_path as a function of its arguments: any predecessor map over
\* the labels (a label may be no key, its value may be no key), any start.
PrevMaps ==
    UNION {[K -> Vertices \cup {None}] : K \in SUBSET Vertices}

InitR ==
    /\ adj = EmptyMap
    /\ nedges = 0
    /\ pc = "done"
    /\ start \in Vertices
    /\ dist = EmptyMap
    /\ prev \in PrevMaps
    /\ heap = <<>>
    /\ pops = 0
    /\ pushes = 0
    /\ poplog = <<>>
    /\ target = None
    /\ result = NoResult

NextR == Reconstruct

SpecR == InitR /\ [][NextR]_vars

\* ------------------------------------------------- reference definitions

Min(S) == CHOOSE x \in S : \A y \in S : x <= y

\* the weights of the adjacency entries of u that lead to v
EdgeWeights(g, u, v) ==
    IF u \in DOMAIN g
    THEN {g[u][i][2] : i \in {j \in 1..Len(g[u]) : g[u][j][1] = v}}
    ELSE {}

HasEdge(g, u, v) == EdgeWeights(g, u, v) /= {}

\* a vertex sequence whose consecutive vertices are joined by entries of g
IsRoute(g, p) ==
    /\ Len(p) >= 1
    /\ \A i \in 1..Len(p) - 1 : HasEdge(g, p[i], p[i + 1])

RECURSIVE RouteWeight(_, _)
\* the least total weight of the entries along the route p
RouteWeight(g, p) ==
    IF Len(p) <= 1
    THEN 0
    ELSE Min(EdgeWeights(g, p[1], p[2])) + RouteWeight(g, Tail(p))

\* the directed paths from s that repeat no vertex
SimplePathsFrom(g, s) ==
    {p \in UNION {[1..n -> DOMAIN g \cup {s}] : n \in 1..Cardinality(Vertices)} :
        /\ p[1] = s
        /\ \A i \in 1..Len(p), j \in 1..Len(p) : p[i] = p[j] => i = j
        /\ IsRoute(g, p)}

\* the weights of the paths among P that end at v
WeightsTo(g, P, v) == {RouteWeight(g, p) : p \in {q \in P : Last(q) = v}}

\* there is a directed path from s to v
Reachable(g, s, v) == WeightsTo(g, SimplePathsFrom(g, s), v) /= {}

\* the least weight of a directed path from s to v (non-negative weights: a
\* path that repeats a vertex weighs no less than the simple one inside it)
ShortestWeight(g, s, v) ==
    LET W == WeightsTo(g, SimplePathsFrom(g, s), v)
    IN IF W /= {} THEN Min(W) ELSE Inf

\* the graph of the scenario: undirected edges A-B 1, B-C 2, A-C 4
ScenarioGraph ==
    add_edge(add_edge(add_edge(EmptyMap, "A", "B", 1, TRUE),
                      "B", "C", 2, TRUE),
             "A", "C", 4, TRUE)

\* ------------------------------------------------------------- claims

\* C1: when compute returns for a start in the graph (non-negative weights),
\* dist[start] = 0 and every dist[v] is the least weight of a directed path
\* from start to v, hence >= 0, and infinite exactly when there is no path;
\* on the scenario graph from A, dist = {A:0, B:1, C:3} and
\* prev = {A:None, B:A, C:B}.
C1_ShortestDistances ==
    (pc = "done" /\ start \in DOMAIN adj) =>
        /\ dist[start] = 0
        /\ DOMAIN dist = DOMAIN adj
        /\ \A v \in DOMAIN adj :
               /\ dist[v] = ShortestWeight(adj, start, v)
               /\ dist[v] >= 0
               /\ (dist[v] = Inf <=> ~Reachable(adj, start, v))
        /\ (adj = ScenarioGraph /\ start = "A") =>
               /\ dist = [v \in {"A", "B", "C"} |->
                            IF v = "A" THEN 0 ELSE IF v = "B" THEN 1 ELSE 3]
               /\ prev = [v \in {"A", "B", "C"} |->
                            IF v = "A" THEN None ELSE IF v = "B" THEN "A" ELSE "B"]

C1_Witness ==
    /\ pc = "done"
    /\ adj = ScenarioGraph
    /\ start = "A"
    /\ dist["C"] = 3
    /\ prev["C"] = "B"

\* C2: after compute from a start in the graph, for every t with finite
\* dist[t], reconstruct(prev, start, t) returns a non-empty sequence from
\* start to t whose consecutive vertices are joined by edges of the graph and
\* whose edge weights (the lightest entry between each pair) sum to dist[t];
\* for t = start it is [start], of sum 0.
C2_PathSum ==
    (pc = "reconstructed" /\ start \in DOMAIN adj /\ target \in DOMAIN dist
       /\ dist[target] < Inf) =>
        /\ result.kind = "returned"
        /\ result.path /= <<>>
        /\ result.path[1] = start
        /\ Last(result.path) = target
        /\ IsRoute(adj, result.path)
        /\ RouteWeight(adj, result.path) = dist[target]
        /\ (target = start => result.path = <<start>> /\ dist[target] = 0)

C2_Witness ==
    /\ pc = "reconstructed"
    /\ start \in DOMAIN adj
    /\ result.kind = "returned"
    /\ Len(result.path) = 3
    /\ dist[target] = 3
    /\ Cardinality(EdgeWeights(adj, result.path[1], result.path[2])) = 2

\* C8: after compute from a start in the graph, a graph vertex t other than
\* start with no directed path from start has dist[t] infinite and prev[t]
\* None, and reconstruct(prev, start, t) returns the empty sequence.
C8_Unreachable ==
    /\ (pc = "done" /\ start \in DOMAIN adj) =>
           \A t \in DOMAIN adj :
               (t /= start /\ ~Reachable(adj, start, t)) =>
                   dist[t] = Inf /\ prev[t] = None
    /\ (pc = "reconstructed" /\ start \in DOMAIN adj /\ target \in DOMAIN adj
          /\ target /= start /\ ~Reachable(adj, start, target)) =>
           result = Returned(<<>>)

C8_Witness ==
    /\ pc = "reconstructed"
    /\ start \in DOMAIN adj
    /\ target \in DOMAIN adj
    /\ target /= start
    /\ adj[target] = <<>>
    /\ adj[start] /= <<>>
    /\ ~Reachable(adj, start, target)
    /\ result = Returned(<<>>)

\* C10: when compute returns for a start in the graph (non-negative weights),
\* every adjacency entry (u, v, w), each copy of a multi-edge and self-loops
\* included, with dist[u] finite has dist[v] <= dist[u] + w.
C10_Triangle ==
    (pc = "done" /\ start \in DOMAIN adj) =>
        \A u \in DOMAIN adj : \A i \in 1..Len(adj[u]) :
            dist[u] < Inf => dist[adj[u][i][1]] <= dist[u] + adj[u][i][2]

C10_Witness ==
    /\ pc = "done"
    /\ start \in DOMAIN adj
    /\ \E u \in DOMAIN adj : \E i \in 1..Len(adj[u]), j \in 1..Len(adj[u]) :
           /\ i /= j
           /\ adj[u][i][1] = adj[u][j][1]
           /\ adj[u][i][1] /= u
           /\ dist[u] < Inf
           /\ dist[adj[u][i][1]] = dist[u] + adj[u][i][2]
           /\ dist[adj[u][j][1]] < dist[u] + adj[u][j][2]
    /\ \E u \in DOMAIN adj : \E i \in 1..Len(adj[u]) :
           adj[u][i][1] = u /\ dist[u] < Inf

\* a simple cycle of g, as the sequence of its vertices
IsCycle(g, c) ==
    /\ \A i \in 1..Len(c), j \in 1..Len(c) : c[i] = c[j] => i = j
    /\ IsRoute(g, c)
    /\ HasEdge(g, Last(c), c[1])

\* g has a cycle of negative total weight that start s reaches
NegativeCycleReachable(g, s) ==
    \E c \in UNION {[1..n -> DOMAIN g] : n \in 1..Cardinality(Vertices)} :
        /\ IsCycle(g, c)
        /\ RouteWeight(g, c) + Min(EdgeWeights(g, Last(c), c[1])) < 0
        /\ Reachable(g, s, c[1])

HasNegativeWeight(g) == \E e \in Entries(g) : g[e[1]][e[2]][2] < 0

\* C3 as stated: for a start absent from the graph compute does not fail,
\* and returns dist[start] = 0, prev[start] = None, every graph vertex at
\* infinity without predecessor, one entry per graph vertex plus start's.
C3_Original ==
    (pc /= "build" /\ start \notin DOMAIN adj) =>
        /\ pc /= "KeyError"
        /\ pc = "done" =>
               /\ DOMAIN dist = DOMAIN adj \cup {start}
               /\ DOMAIN prev = DOMAIN adj \cup {start}
               /\ dist[start] = 0
               /\ prev[start] = None
               /\ \A v \in DOMAIN adj : dist[v] = Inf /\ prev[v] = None

\* C3 amended: for a start absent from the graph compute never returns: it
\* sets dist[start] = 0 beside one infinite entry per graph vertex, gives
\* prev one None entry per graph vertex and none for start, pops (0, start)
\* and fails with KeyError on graph.adj[start] before relaxing anything.
C3_AbsentStartRaises ==
    (pc /= "build" /\ start \notin DOMAIN adj) =>
        /\ pc \in {"run", "KeyError"}
        /\ DOMAIN dist = DOMAIN adj \cup {start}
        /\ DOMAIN prev = DOMAIN adj
        /\ dist[start] = 0
        /\ \A v \in DOMAIN adj : dist[v] = Inf /\ prev[v] = None
        /\ pushes = 0
        /\ (pc = "run" => heap = <<<<0, start>>>> /\ pops = 0)
        /\ (pc = "KeyError" => heap = <<>> /\ pops = 1)

C3_Witness ==
    /\ pc = "KeyError"
    /\ start \notin DOMAIN adj
    /\ NumEntries(adj) >= 2

\* C5: for a start in the graph (non-negative weights; multi-edges,
\* self-loops and edgeless vertices included) compute meets no lookup
\* failure, makes at most one loop pass per entry pushed, the seed included,
\* and pushes at most one entry per adjacency entry, so that the loop ends;
\* the maps returned have exactly one entry per graph vertex.
C5_ComputeReturns ==
    (pc /= "build" /\ start \in DOMAIN adj) =>
        /\ pc \in {"run", "done", "reconstructed"}
        /\ pops + Len(heap) = pushes + 1
        /\ pushes <= NumEntries(adj)
        /\ DOMAIN dist = DOMAIN adj
        /\ DOMAIN prev = DOMAIN adj
        /\ (pc = "done" => heap = <<>>)

C5_Witness ==
    /\ pc = "done"
    /\ start \in DOMAIN adj
    /\ pops >= 3
    /\ \E v \in DOMAIN adj : adj[v] = <<>>
    /\ \E u \in DOMAIN adj : HasEdge(adj, u, u)
    /\ \E u \in DOMAIN adj, v \in DOMAIN adj :
           Cardinality({i \in 1..Len(adj[u]) : adj[u][i][1] = v}) >= 2

\* C6 as stated: add_edge takes negative weights, and on every graph with a
\* negative weight, from every start in the graph, compute neither fails nor
\* runs for ever: it empties the heap and returns dist and prev.
C6_Original ==
    (pc /= "build" /\ start \in DOMAIN adj /\ HasNegativeWeight(adj)) =>
        /\ pc \in {"run", "done", "reconstructed"}
        /\ (pc = "done" => DOMAIN dist = DOMAIN adj /\ DOMAIN prev = DOMAIN adj)

\* C6 amended: add_edge takes negative weights unchecked, and on a graph
\* with negative weights but no negative cycle that start reaches, compute
\* from a start in the graph neither fails nor runs for ever, and returns
\* dist and prev maps with one entry per graph vertex.
C6_NegativeWeights ==
    (pc /= "build" /\ start \in DOMAIN adj /\ HasNegativeWeight(adj)
       /\ ~NegativeCycleReachable(adj, start)) =>
        /\ pc \in {"run", "done", "reconstructed"}
        /\ pops + Len(heap) = pushes + 1
        /\ (pc = "done" =>
               /\ heap = <<>>
               /\ DOMAIN dist = DOMAIN adj
               /\ DOMAIN prev = DOMAIN adj)

C6_Witness ==
    /\ pc = "done"
    /\ start \in DOMAIN adj
    /\ HasNegativeWeight(adj)
    /\ \E v \in DOMAIN adj : dist[v] < 0
    /\ pushes >= 2

\* ---------------------------------------- claims on reconstruct_path alone

RECURSIVE NthPred(_, _, _)
\* the vertex k predecessor links back from x (None once the links end)
NthPred(p, x, k) ==
    IF k = 0
    THEN x
    ELSE IF x = None \/ x \notin DOMAIN p
         THEN None
         ELSE NthPred(p, p[x], k - 1)

\* target and the vertices reached from it by predecessor links
ChainSet(p, t) == {NthPred(p, t, k) : k \in 0..Cardinality(Vertices)} \ {None}

\* target and every vertex reached from it are keys of prev
ChainInKeys(p, t) == ChainSet(p, t) \subseteq DOMAIN p

MeetsStart(p, s, t) == s \in ChainSet(p, t)

\* the links from target end at None (they do not run into a cycle)
RunsOut(p, t) == NthPred(p, t, Cardinality(Vertices)) = None

\* either nothing, or start ... target, each the prev of the one after it
EmptyOrChain(p, s, t, path) ==
    \/ path = <<>>
    \/ /\ path[1] = s
       /\ Last(path) = t
       /\ \A i \in 1..Len(path) - 1 :
              path[i + 1] \in DOMAIN p /\ path[i] = p[path[i + 1]]

\* C4 as stated: whenever target is no key of prev, reconstruct ends in a
\* lookup failure and returns no sequence, for every start, start = target
\* included.
C4_Original ==
    (pc = "reconstructed" /\ target \notin DOMAIN prev) =>
        result.kind = "KeyError"

\* C4 amended: whenever target is no key of prev and start /= target,
\* reconstruct ends in a lookup failure and returns no sequence.
C4_MissingTargetRaises ==
    (pc = "reconstructed" /\ target \notin DOMAIN prev /\ start /= target) =>
        result = Raised

C4_Witness ==
    /\ pc = "reconstructed"
    /\ target \notin DOMAIN prev
    /\ start /= target
    /\ start \in DOMAIN prev
    /\ result.kind = "KeyError"

\* C7: reconstruct(prev, s, s) returns exactly [s] for every prev, also when
\* s has a predecessor in prev, has None, or is no key of prev.
C7_TrivialPath ==
    (pc = "reconstructed" /\ start = target) => result = Returned(<<start>>)

C7_Witness ==
    /\ pc = "reconstructed"
    /\ start = target
    /\ start \notin DOMAIN prev
    /\ prev /= EmptyMap
    /\ result = Returned(<<start>>)

\* C9 as stated: for any prev, start and target such that target and every
\* vertex reached from it by predecessor links are keys of prev, reconstruct
\* returns, without error, the empty sequence or a sequence from start to
\* target in which each element is the prev of the next; it returns the
\* empty sequence when the links run out before meeting start.
C9_Original ==
    (pc = "reconstructed" /\ ChainInKeys(prev, target)) =>
        /\ result.kind = "returned"
        /\ EmptyOrChain(prev, start, target, result.path)
        /\ (RunsOut(prev, target) /\ ~MeetsStart(prev, start, target)) =>
               result.path = <<>>

\* C9 amended: the same, for prev, start and target whose links from target
\* meet start or run out (they do not enter a cycle that avoids start).
C9_ReconstructReturns ==
    (pc = "reconstructed" /\ ChainInKeys(prev, target)
       /\ (MeetsStart(prev, start, target) \/ RunsOut(prev, target))) =>
        /\ result.kind = "returned"
        /\ EmptyOrChain(prev, start, target, result.path)
        /\ (RunsOut(prev, target) /\ ~MeetsStart(prev, start, target)) =>
               result.path = <<>>

C9_Witness ==
    /\ pc = "reconstructed"
    /\ ChainInKeys(prev, target)
    /\ MeetsStart(prev, start, target)
    /\ ~RunsOut(prev, target)
    /\ result.kind = "returned"
    /\ Len(result.path) = 3

\* ------------------------------------------- claims on the relaxation loop

\* compute is in its loop or has returned, for a start in the graph
Running == pc \in {"run", "done"} /\ start \in DOMAIN adj

\* the next pass of the while loop expands its vertex (the entry it pops is
\* not stale)
Expands == pc = "run" /\ heap /= <<>> /\ ~Popped(dist, heap).stale

\* The maps and the heap inside the next pass of the while loop, after the
\* for loop of lines 79-88 has handled the first k adjacency entries of the
\* vertex popped.
PassPrefix(k) ==
    LET popped == heappop(heap)
        u == popped.item[2]
    IN RelaxLoop([dist |-> dist, prev |-> prev, heap |-> popped.heap,
                  pushes |-> 0, err |-> FALSE],
                 SubSeq(adj[u], 1, k), u, popped.item[1], 1)

\* the adjacency list the next pass walks
NextEdges == adj[Popped(dist, heap).item[2]]

\* predecessor links under maps d, p lead every vertex of finite distance
\* back to s, through vertices of finite distance, without a repeat
RootedAt(d, p, s) ==
    /\ p[s] = None
    /\ \A v \in DOMAIN d \ {s} :
           d[v] < Inf => p[v] /= None /\ d[p[v]] < Inf
    /\ \A v \in DOMAIN d :
           d[v] < Inf =>
               \E k \in 0..Cardinality(DOMAIN d) - 1 :
                   /\ NthPred(p, v, k) = s
                   /\ \A i \in 0..k, j \in 0..k :
                          NthPred(p, v, i) = NthPred(p, v, j) => i = j

\* C11: at every point of the relaxation loop (non-negative weights, start in
\* the graph), between passes and between the entries of one pass,
\* prev[start] is None, every other vertex of finite distance has a
\* predecessor of finite distance, and the predecessor links from a vertex of
\* finite distance reach start within |V| - 1 steps without a repeat.
C11_RootedChains ==
    Running =>
        /\ RootedAt(dist, prev, start)
        /\ Expands =>
               \A k \in 0..Len(NextEdges) :
                   RootedAt(PassPrefix(k).dist, PassPrefix(k).prev, start)

C11_Witness ==
    /\ Running
    /\ Expands
    /\ \E v \in DOMAIN adj :
           /\ dist[v] < Inf
           /\ prev[v] = start
           /\ \E k \in 1..Len(NextEdges) - 1 :
                  /\ PassPrefix(k).prev[v] /= start
                  /\ NthPred(PassPrefix(k).prev, v, 2) = start

\* the entries a heap holds
HeapSet(h) == {h[i] : i \in 1..Len(h)}

\* the entry of Q with the smallest distance, the smallest label among equals
LeastEntry(Q) ==
    CHOOSE e \in Q :
        \A f \in Q :
            \/ f = e
            \/ e[1] < f[1]
            \/ (e[1] = f[1] /\ Rank(e[2]) < Rank(f[2]))

RECURSIVE RefRelax(_, _, _, _, _)
\* the relaxation of the entries i.. of edges, with the pending entries a set
RefRelax(r, edges, u, du, i) ==
    IF i > Len(edges)
    THEN r
    ELSE LET v == edges[i][1]
             c == du + edges[i][2]
         IN IF c < r.dist[v]
            THEN RefRelax([dist |-> [r.dist EXCEPT ![v] = c],
                           prev |-> [r.prev EXCEPT ![v] = u],
                           Q |-> r.Q \cup {<<c, v>>}],
                          edges, u, du, i + 1)
            ELSE RefRelax(r, edges, u, du, i + 1)

RECURSIVE RefLoop(_, _)
\* Dijkstra's algorithm told by its order alone: always take the least
\* pending (distance, label), whatever the layout of a heap
RefLoop(g, r) ==
    IF r.Q = {}
    THEN r
    ELSE LET e == LeastEntry(r.Q)
             r1 == [r EXCEPT !.Q = r.Q \ {e}]
         IN IF e[1] > r.dist[e[2]]
            THEN RefLoop(g, r1)
            ELSE RefLoop(g, RefRelax(r1, g[e[2]], e[2], e[1], 1))

RefCompute(g, s) ==
    RefLoop(g, [dist |-> [v \in DOMAIN g |-> IF v = s THEN 0 ELSE Inf],
                prev |-> [v \in DOMAIN g |-> None],
                Q |-> {<<0, s>>}])

\* C12: compute is determined by the graph and start: every pop takes the
\* pending entry of smallest distance, of smallest label among equal
\* distances, whatever the heap's layout, and the maps returned are those of
\* that order, so that two runs on the same graph and start pop in the same
\* order and return the same dist and prev, also when several shortest paths
\* of equal weight exist.
C12_Deterministic ==
    Running =>
        /\ (pc = "run" /\ heap /= <<>>) =>
               LET popped == heappop(heap)
               IN /\ popped.item = LeastEntry(HeapSet(heap))
                  /\ HeapSet(popped.heap) = HeapSet(heap) \ {popped.item}
                  /\ Len(popped.heap) = Len(heap) - 1
        /\ pc = "done" =>
               /\ dist = RefCompute(adj, start).dist
               /\ prev = RefCompute(adj, start).prev

C12_Witness ==
    /\ pc = "done"
    /\ start \in DOMAIN adj
    /\ \E i \in 1..Len(poplog) - 1 :
           /\ ~poplog[i].stale
           /\ ~poplog[i + 1].stale
           /\ poplog[i].item[1] = poplog[i + 1].item[1]
    /\ \E v \in DOMAIN adj, u1 \in DOMAIN adj, u2 \in DOMAIN adj :
           /\ u1 /= u2
           /\ v \notin {start, u1, u2}
           /\ HasEdge(adj, u1, v)
           /\ HasEdge(adj, u2, v)
           /\ dist[u1] + Min(EdgeWeights(adj, u1, v)) = dist[v]
           /\ dist[u2] + Min(EdgeWeights(adj, u2, v)) = dist[v]

\* ------------------------------------------------- claims on the graph

\* the adjacency list of x in g, empty for a label g does not hold
ListOf(g, x) == IF x \in DOMAIN g THEN g[x] ELSE <<>>

\* what add_edge(u, v, weight, undirected) appends to the list of x
Gained(x, u, v, weight, undirected) ==
    (IF x = u THEN <<<<v, weight>>>> ELSE <<>>)
        \o (IF undirected /\ x = v THEN <<<<u, weight>>>> ELSE <<>>)

IsPrefix(a, b) == Len(a) <= Len(b) /\ SubSeq(b, 1, Len(a)) = a

\* C13: on every graph the program can build, add_edge(u, v, weight,
\* undirected) yields a graph whose vertices are the old ones with u and v,
\* where the list of u has gained exactly (v, weight) at its end and, when
\* undirected, the list of v exactly (u, weight) at its end (both on the one
\* list of an undirected self-loop, duplicates kept), and no other list has
\* changed.
C13_AddEdge ==
    pc = "build" =>
        \A u \in Vertices, v \in Vertices, weight \in Weights,
           undirected \in BOOLEAN :
            LET g == add_edge(adj, u, v, weight, undirected)
            IN /\ DOMAIN g = DOMAIN adj \cup {u, v}
               /\ \A x \in DOMAIN g :
                      g[x] = ListOf(adj, x)
                                 \o Gained(x, u, v, weight, undirected)

C13_Witness ==
    /\ pc = "build"
    /\ nedges = 2
    /\ \E u \in DOMAIN adj :
           /\ Len(adj[u]) = 3
           /\ adj[u][1] = adj[u][2]
           /\ adj[u][1][1] = u
           /\ adj[u][3] = adj[u][1]

\* C14: the graph only grows: no step removes a vertex, every list keeps
\* its earlier content as a prefix, and add_vertex of a vertex the graph
\* holds, with or without edges, gives the graph back unchanged.
C14_AppendOnly ==
    [][/\ \A v \in DOMAIN adj :
              /\ v \in DOMAIN adj'
              /\ IsPrefix(adj[v], adj'[v])
       /\ \A v \in DOMAIN adj' : add_vertex(adj', v) = adj']_vars

C14_Witness ==
    /\ pc = "build"
    /\ nedges = MaxEdges
    /\ \E v \in DOMAIN adj : Len(adj[v]) >= 2
    /\ \E v \in DOMAIN adj : adj[v] = <<>>

\* d2 is nowhere above d1, and finite wherever d1 is
NotAbove(d2, d1) ==
    /\ DOMAIN d2 = DOMAIN d1
    /\ \A v \in DOMAIN d1 :
           /\ d2[v] <= d1[v]
           /\ d1[v] < Inf => d2[v] < Inf

\* C15: distances only decrease: over every pass of the while loop, and
\* over every adjacency entry relaxed inside a pass, each dist[v] is at most
\* what it was, and a finite dist[v] stays finite.
C15_DistancesDecrease ==
    [][pc = "run" =>
           /\ NotAbove(dist', dist)
           /\ (Expands /\ start \in DOMAIN adj) =>
                  \A k \in 1..Len(NextEdges) :
                      NotAbove(PassPrefix(k).dist, PassPrefix(k - 1).dist)]_vars

C15_Witness ==
    /\ pc = "run"
    /\ pops >= 2
    /\ \E i \in 1..Len(heap) :
           /\ heap[i][1] < Inf
           /\ heap[i][1] > dist[heap[i][2]]
    /\ \E v \in DOMAIN dist : dist[v] < 0

\* C16: a popped entry (d, u) with d > dist[u] is discarded: the pass
\* changes neither dist nor prev, pushes nothing and takes only that entry
\* off the queue; an entry with d = dist[u] is not discarded: after the pass
\* every entry (v, w) of u's list has been relaxed, dist[v] <= d + w.
C16_LazyDeletion ==
    [][(pc = "run" /\ heap /= <<>> /\ start \in DOMAIN adj) =>
           LET item == LeastEntry(HeapSet(heap))
               d == item[1]
               u == item[2]
           IN /\ d > dist[u] =>
                     /\ dist' = dist
                     /\ prev' = prev
                     /\ pushes' = pushes
                     /\ HeapSet(heap') = HeapSet(heap) \ {item}
                     /\ Len(heap') = Len(heap) - 1
                     /\ poplog' = Append(poplog, [item |-> item, stale |-> TRUE])
              /\ d = dist[u] =>
                     /\ \A i \in 1..Len(adj[u]) :
                            dist'[adj[u][i][1]] <= d + adj[u][i][2]
                     /\ poplog' = Append(poplog, [item |-> item, stale |-> FALSE])]_vars

C16_Witness ==
    /\ pc = "run"
    /\ start \in DOMAIN adj
    /\ Len(poplog) >= 3
    /\ poplog[Len(poplog)].stale
    /\ \E i \in 1..Len(poplog) - 1 :
           /\ ~poplog[i].stale
           /\ poplog[i].item[2] = poplog[Len(poplog)].item[2]
           /\ poplog[i].item[1] < poplog[Len(poplog)].item[1]
    /\ heap /= <<>>

\* the vertex being expanded and the distance it was popped with
Expanded == Popped(dist, heap).item[2]

PoppedDist == Popped(dist, heap).item[1]

\* the k-th entry of the expanded vertex's list is handled as the claim says
RelaxedOnlyIfLess(k) ==
    LET a == PassPrefix(k - 1)
        b == PassPrefix(k)
        v == NextEdges[k][1]
        candidate == PoppedDist + NextEdges[k][2]
    IN IF candidate < a.dist[v]
       THEN /\ b.dist = [a.dist EXCEPT ![v] = candidate]
            /\ b.prev = [a.prev EXCEPT ![v] = Expanded]
            /\ HeapSet(b.heap) = HeapSet(a.heap) \cup {<<candidate, v>>}
            /\ Len(b.heap) = Len(a.heap) + 1
            /\ b.pushes = a.pushes + 1
       ELSE /\ b.dist = a.dist
            /\ b.prev = a.prev
            /\ b.heap = a.heap
            /\ b.pushes = a.pushes

\* C17: when a non-stale vertex u is expanded, each entry (v, w) of its list
\* sets dist[v] to candidate = dist[u] + w, prev[v] to u and pushes
\* (candidate, v) exactly when candidate < dist[v]; when candidate >= dist[v]
\* it changes nothing, so the first predecessor that reached the best
\* distance stays; the pass ends in the state the last entry leaves.
C17_StrictImprovement ==
    [][(Running /\ Expands) =>
           /\ PoppedDist = dist[Expanded]
           /\ \A k \in 1..Len(NextEdges) : RelaxedOnlyIfLess(k)
           /\ dist' = PassPrefix(Len(NextEdges)).dist
           /\ prev' = PassPrefix(Len(NextEdges)).prev
           /\ heap' = PassPrefix(Len(NextEdges)).heap
           /\ pushes' = pushes + PassPrefix(Len(NextEdges)).pushes]_vars

C17_Witness ==
    /\ Running
    /\ Expands
    /\ pops >= 1
    /\ \E k \in 1..Len(NextEdges) :
           LET a == PassPrefix(k - 1)
               v == NextEdges[k][1]
           IN /\ PoppedDist + NextEdges[k][2] = a.dist[v]
              /\ a.prev[v] \notin {None, Expanded}
              /\ PassPrefix(Len(NextEdges)).prev[v] = a.prev[v]
    /\ \E k \in 1..Len(NextEdges) :
           PoppedDist + NextEdges[k][2] < PassPrefix(k - 1).dist[NextEdges[k][1]]

\* C18: with non-negative weights and start in the graph, the entries a run
\* pushes beside the seed (0, start) number at most E, the adjacency entries
\* of the graph, and the queue never holds more than E + 1 entries.
C18_PushesBounded ==
    Running =>
        /\ pushes <= NumEntries(adj)
        /\ Len(heap) <= NumEntries(adj) + 1

C18_Witness ==
    /\ pc = "done"
    /\ start \in DOMAIN adj
    /\ NumEntries(adj) = MaxEdges
    /\ pushes = NumEntries(adj)
    /\ \E i \in 1..Len(poplog) : poplog[i].stale

\* the positions of poplog at which a vertex was expanded
Expansions == {i \in 1..Len(poplog) : ~poplog[i].stale}

ExpandedSoFar == {poplog[i].item[2] : i \in Expansions}

\* C19: with non-negative weights, the distances of the non-stale entries
\* popped never decrease along the run, no vertex is expanded twice, dist[u]
\* is still the distance u was expanded with, every queue entry (d, v) has
\* d >= dist[v], and every vertex of finite distance not yet expanded has the
\* entry (dist[v], v) in the queue.
C19_SettledOnExpansion ==
    Running =>
        /\ \A i \in Expansions, j \in Expansions :
               i < j =>
                   /\ poplog[i].item[1] <= poplog[j].item[1]
                   /\ poplog[i].item[2] /= poplog[j].item[2]
        /\ \A i \in Expansions : dist[poplog[i].item[2]] = poplog[i].item[1]
        /\ \A i \in 1..Len(heap) : heap[i][1] >= dist[heap[i][2]]
        /\ \A v \in DOMAIN dist :
               (dist[v] < Inf /\ v \notin ExpandedSoFar) =>
                   <<dist[v], v>> \in HeapSet(heap)

C19_Witness ==
    /\ pc = "run"
    /\ start \in DOMAIN adj
    /\ \E i \in Expansions, j \in Expansions :
           poplog[i].item[1] < poplog[j].item[1]
    /\ \E i \in 1..Len(heap) : heap[i][1] > dist[heap[i][2]]
    /\ \E v \in DOMAIN dist : dist[v] < Inf /\ v \notin ExpandedSoFar

====
